---------------------------- MODULE Spec2Model ----------------------------
(***************************************************************************)
(* Stock control of a phone-resale inventory.                              *)
(*                                                                         *)
(* Two React pages are modelled, one mounted at a time:                    *)
(*   StockControlFinal  (client/src/pages/stock-control-final.tsx): the    *)
(*       reconciliation session (start, scan, finalize, remediation);      *)
(*   StockControlPage   (the second source file): a plain IMEI scan list.  *)
(*                                                                         *)
(* Strings that the code trims are sequences of one-character strings, so  *)
(* that trimming is computed and not assumed.                              *)
(***************************************************************************)
EXTENDS Integers, Sequences, FiniteSets, Bags, TLC

VARIABLES
    page,               \* which component is mounted
    products,           \* productArray: the snapshot held by the query cache
    isScanning,         \* StockControlFinal.isScanning
    scannedItems,       \* StockControlFinal.scannedItems (ScannedItem[])
    sessionStartCounts, \* StockControlFinal.sessionStartCounts
    missingProducts,    \* StockControlFinal.missingProducts (Product[])
    pending,            \* bag of the PATCH requests in flight
                        \* (handleMarkAsLost/Found)
    toast,              \* the notification emitted by the last step
    pageScanning,       \* StockControlPage.isScanning
    pageScannedItems    \* StockControlPage.scannedItems (string[])

vars == << page, products, isScanning, scannedItems, sessionStartCounts,
           missingProducts, pending, toast, pageScanning, pageScannedItems >>

finalVars == << isScanning, scannedItems, sessionStartCounts,
                missingProducts, pending >>

pageVars == << pageScanning, pageScannedItems >>

-----------------------------------------------------------------------------
(* Bounds of the model *)

\* number of product records the inventory may hold
NProducts == 1

\* longest run of blanks typed before or after an IMEI
MaxPad == 1

\* PATCH requests that may be in flight at once
MaxPending == 2

-----------------------------------------------------------------------------
(* Data *)

ProductIds == 1..NProducts

\* Product.status
Status == { "disponible", "reservado", "vendido", "tecnico_interno",
            "tecnico_externo", "a_reparar", "extravio" }

\* faulty variant: tecnico_externo taken for a status to verify
IsScannable_WithExterno(status) ==
    \/ status = "disponible" \/ status = "reservado"
    \/ status = "tecnico_interno" \/ status = "tecnico_externo"

\* the condition of the filters of startScanningSession, finalizeScanningSession
\* and (negated) of handleScan
IsScannable(status) ==
    status = "disponible" \/ status = "reservado" \/ status = "tecnico_interno"

SP == " "

Digit == << "1", "2", "3", "4", "5", "6", "7", "8", "9" >>

\* the IMEI of the record with the given id: a key without blanks, unique
\* per record
ImeiOf(id) == << Digit[id] >>

\* a Product, reduced to the fields the logic reads
Product(id, status) == [ id |-> id, imei |-> ImeiOf(id), status |-> status ]

\* `product: undefined` of a ScannedItem
NoProduct == [ id |-> 0 ]

Absent == "absent"

RECURSIVE Listing(_, _)
\* the array the server returns for an inventory f, in id order
Listing(f, id) ==
    IF id > NProducts THEN << >>
    ELSE (IF f[id] = Absent THEN << >> ELSE << Product(id, f[id]) >>)
            \o Listing(f, id + 1)

\* every array the products query can deliver (the empty array included)
Inventories == { Listing(f, 1) : f \in [ProductIds -> Status \cup {Absent}] }

\* `data` of the query before it has answered, and after a first fetch that
\* failed
Undefined == [ kind |-> "undefined" ]

\* bodies that are not arrays: an object, here a single record.  Nothing of
\* the object is read, so its content does not matter
ObjectBodies == { Product(id, "disponible") : id \in ProductIds }

\* what the query can resolve to: an array of records, or a body that is not
\* an array
Deliveries ==
    { [ kind |-> "array", value |-> inv ] : inv \in Inventories }
        \cup { [ kind |-> "object", value |-> p ] : p \in ObjectBodies }

\* faulty variant: a body that is not an array is taken for an array of one
\* record
ProductArray_Wrapped(data) ==
    IF data.kind = "array" THEN data.value
    ELSE IF data.kind = "object" THEN << data.value >>
    ELSE << >>

\* `data: products = []` and
\* productArray = Array.isArray(products) ? products : []
ProductArray(data) == IF data.kind = "array" THEN data.value ELSE << >>

\* the array arr with the record of this id set to status st (changed, added
\* or, for Absent, removed), in id order: what the next delivery of the query
\* holds when one record of the inventory has changed
WithRecord(arr, id, st) ==
    LET Before(p) == p.id < id
        After(p) == p.id > id
    IN  SelectSeq(arr, Before)
            \o (IF st = Absent THEN << >> ELSE << Product(id, st) >>)
            \o SelectSeq(arr, After)

Blanks(n) == [ i \in 1..n |-> SP ]

\* the IMEIs the operator scans: those of the records, and at least two
\* different ones, so that an IMEI of no record can always be scanned
ScannedIds == 1..(IF NProducts < 2 THEN 2 ELSE NProducts)

\* the blanks typed before and after an IMEI: at most MaxPad in all
Pads == { lr \in (0..MaxPad) \X (0..MaxPad) : lr[1] + lr[2] <= MaxPad }

\* the field's value for an IMEI typed with these blanks around it
Typed(imei, lr) == Blanks(lr[1]) \o imei \o Blanks(lr[2])

\* what the operator can have in the IMEI field when the form is submitted
Inputs ==
    { Typed(core, lr) :
        lr \in Pads,
        core \in { ImeiOf(id) : id \in ScannedIds } \cup { << >> } }

-----------------------------------------------------------------------------
(* Pure helpers *)

RECURSIVE TrimStart(_)
TrimStart(s) ==
    IF s = << >> THEN s
    ELSE IF Head(s) = SP THEN TrimStart(Tail(s)) ELSE s

RECURSIVE TrimEnd(_)
TrimEnd(s) ==
    IF s = << >> THEN s
    ELSE IF s[Len(s)] = SP THEN TrimEnd(SubSeq(s, 1, Len(s) - 1)) ELSE s

\* faulty variant: trimStart in place of trim
Trim_StartOnly(s) == TrimStart(s)

\* String.prototype.trim
Trim(s) == TrimEnd(TrimStart(s))

\* array.map(item => item.imei)
ImeisOf(items) == [ i \in 1..Len(items) |-> items[i].imei ]

\* array.includes(x)
Includes(arr, x) == \E i \in 1..Len(arr) : arr[i] = x

\* productArray.find(p => p.imei === imei), NoProduct for undefined
FindProduct(arr, imei) ==
    IF \E i \in 1..Len(arr) : arr[i].imei = imei
    THEN arr[CHOOSE i \in 1..Len(arr) :
                /\ arr[i].imei = imei
                /\ \A j \in 1..(i - 1) : arr[j].imei # imei]
    ELSE NoProduct

\* productArray.filter(p => p.status === s).length
CountStatus(arr, s) ==
    LET Is(p) == p.status = s IN Len(SelectSeq(arr, Is))

\* faulty variant: the filter as it was before tecnico_interno was added to it
ScannableProducts_NoTecnico(arr) ==
    LET Ok(p) == p.status = "disponible" \/ p.status = "reservado"
    IN  SelectSeq(arr, Ok)

\* productArray.filter(p => scannable status)
ScannableProducts(arr) ==
    LET Ok(p) == IsScannable(p.status) IN SelectSeq(arr, Ok)

\* faulty variant: nothing is missing unless something was scanned (the guard of the
\* unused detectMissingProducts)
NotScannedProducts_IfScanned(arr, items) ==
    LET scannedIMEIs == ImeisOf(items)
        Miss(p) == ~ Includes(scannedIMEIs, p.imei)
    IN  IF Len(items) > 0 THEN SelectSeq(ScannableProducts(arr), Miss)
        ELSE << >>

\* faulty variant: the negation of the filter dropped
NotScannedProducts_NoNegation(arr, items) ==
    LET scannedIMEIs == ImeisOf(items)
        Hit(p) == Includes(scannedIMEIs, p.imei)
    IN  SelectSeq(ScannableProducts(arr), Hit)

\* expectedProducts.filter(p => !scannedIMEIs.includes(p.imei))
NotScannedProducts(arr, items) ==
    LET scannedIMEIs == ImeisOf(items)
        Miss(p) == ~ Includes(scannedIMEIs, p.imei)
    IN  SelectSeq(ScannableProducts(arr), Miss)

ZeroCounts == [ disponible |-> 0, reservado |-> 0, tecnico_interno |-> 0,
                total |-> 0 ]

-----------------------------------------------------------------------------
(* Values derived at every render of StockControlFinal *)

\* the counts over the array the query holds now
stats ==
    [ total           |-> Len(products),
      disponible      |-> CountStatus(products, "disponible"),
      reservado       |-> CountStatus(products, "reservado"),
      vendido         |-> CountStatus(products, "vendido"),
      tecnico_interno |-> CountStatus(products, "tecnico_interno"),
      extravios       |-> CountStatus(products, "extravio") ]

\* faulty variant: the records as the log bound them when they were scanned
scannedProducts_Bound ==
    LET IsFound(item) == item.status = "found"
        found == SelectSeq(scannedItems, IsFound)
    IN  [ i \in 1..Len(found) |-> found[i].product ]

\* productArray.filter(p => scannedIMEIs.includes(p.imei))
scannedProducts ==
    LET scannedIMEIs == ImeisOf(scannedItems)
        Hit(p) == Includes(scannedIMEIs, p.imei)
    IN  SelectSeq(products, Hit)

\* the counters of the session panel
dynamicStats ==
    [ disponible      |-> stats.disponible
                            - CountStatus(scannedProducts, "disponible"),
      reservado       |-> stats.reservado
                            - CountStatus(scannedProducts, "reservado"),
      tecnico_interno |-> stats.tecnico_interno
                            - CountStatus(scannedProducts, "tecnico_interno"),
      scannedCount    |-> Len(scannedItems),
      expectedTotal   |-> IF sessionStartCounts.total > 0
                          THEN sessionStartCounts.total ELSE stats.total,
      pendingToScan   |-> IF sessionStartCounts.total > 0
                          THEN sessionStartCounts.total - Len(scannedItems)
                          ELSE 0 ]

\* the counter a status card shows: isScanning ? dynamicStats.X : stats.X
CardCounter(st) == IF isScanning THEN dynamicStats[st] ELSE stats[st]

-----------------------------------------------------------------------------
(* Initial state: the component has mounted, the query has not answered *)

Init ==
    /\ page \in { "StockControlFinal", "StockControlPage" }
    /\ products = ProductArray(Undefined)
    /\ isScanning = FALSE
    /\ scannedItems = << >>
    /\ sessionStartCounts = ZeroCounts
    /\ missingProducts = << >>
    /\ pending = EmptyBag
    /\ toast = "none"
    /\ pageScanning = FALSE
    /\ pageScannedItems = << >>

-----------------------------------------------------------------------------
(* The products query *)

\* the query (first fetch, refetch on mount, Actualizar button) resolves to
\* data, and productArray differs from the one held.  Next delivers arrays
\* that differ in one record; an array that differs in several is reached by
\* as many deliveries, which touch nothing but products.  A refetch that fails
\* keeps the data held and is no step.
Refetch(data) ==
    /\ data \in Deliveries
    /\ ProductArray(data) # products
    /\ products' = ProductArray(data)
    /\ toast' = "none"
    /\ UNCHANGED << page, finalVars, pageVars >>

-----------------------------------------------------------------------------
(* StockControlFinal *)

\* faulty variant: the total counts every record of the array
StartCounts_TotalAll(arr) ==
    [ disponible      |-> CountStatus(arr, "disponible"),
      reservado       |-> CountStatus(arr, "reservado"),
      tecnico_interno |-> CountStatus(arr, "tecnico_interno"),
      total           |-> Len(arr) ]

\* faulty variant: the total as it was before tecnico_interno was counted
StartCounts_NoTecnico(arr) ==
    [ disponible      |-> CountStatus(arr, "disponible"),
      reservado       |-> CountStatus(arr, "reservado"),
      tecnico_interno |-> CountStatus(arr, "tecnico_interno"),
      total           |-> CountStatus(arr, "disponible")
                            + CountStatus(arr, "reservado") ]

\* the counts captured by setSessionStartCounts
StartCounts(arr) ==
    [ disponible      |-> CountStatus(arr, "disponible"),
      reservado       |-> CountStatus(arr, "reservado"),
      tecnico_interno |-> CountStatus(arr, "tecnico_interno"),
      total           |-> Len(ScannableProducts(arr)) ]

\* faulty variant: the missing list of the previous session is kept
startScanningSession_KeepsMissing ==
    /\ page = "StockControlFinal"
    /\ ~ isScanning
    /\ sessionStartCounts' = StartCounts(products)
    /\ scannedItems' = << >>
    /\ isScanning' = TRUE
    /\ toast' = "ControlIniciado"
    /\ UNCHANGED << page, products, missingProducts, pending, pageVars >>

\* faulty variant: the start is offered also while a session is Active
startScanningSession_Restart ==
    /\ page = "StockControlFinal"
    /\ sessionStartCounts' = StartCounts(products)
    /\ scannedItems' = << >>
    /\ missingProducts' = << >>
    /\ isScanning' = TRUE
    /\ toast' = "ControlIniciado"
    /\ UNCHANGED << page, products, pending, pageVars >>

startScanningSession ==
    /\ page = "StockControlFinal"
    /\ ~ isScanning
    /\ sessionStartCounts' = StartCounts(products)
    /\ scannedItems' = << >>
    /\ missingProducts' = << >>
    /\ isScanning' = TRUE
    /\ toast' = "ControlIniciado"
    /\ UNCHANGED << page, products, pending, pageVars >>

\* faulty variant: the count is tested before the identities
FinalizeOutcome_CountFirst(scannedCount, expectedCount, notScanned) ==
    IF scannedCount = expectedCount
    THEN "ControlCompletadoPerfecto"
    ELSE IF Len(notScanned) > 0
         THEN "ProductosFaltantesDetectados"
         ELSE "ControlIncompleto"

\* faulty variant: fewer scans than expected reported as incomplete before the
\* missing records are looked at
FinalizeOutcome_LessIsIncomplete(scannedCount, expectedCount, notScanned) ==
    IF scannedCount = expectedCount /\ Len(notScanned) = 0
    THEN "ControlCompletadoPerfecto"
    ELSE IF scannedCount < expectedCount
         THEN "ControlIncompleto"
         ELSE "ProductosFaltantesDetectados"

\* the three toasts of finalizeScanningSession
FinalizeOutcome(scannedCount, expectedCount, notScanned) ==
    IF scannedCount = expectedCount /\ Len(notScanned) = 0
    THEN "ControlCompletadoPerfecto"
    ELSE IF Len(notScanned) > 0
         THEN "ProductosFaltantesDetectados"
         ELSE "ControlIncompleto"

finalizeScanningSession ==
    /\ page = "StockControlFinal"
    /\ isScanning
    /\ isScanning' = FALSE
    /\ LET notScannedProducts == NotScannedProducts(products, scannedItems)
       IN  /\ missingProducts' = notScannedProducts
           /\ toast' = FinalizeOutcome(Len(scannedItems),
                                       sessionStartCounts.total,
                                       notScannedProducts)
    /\ UNCHANGED << page, products, scannedItems, sessionStartCounts,
                    pending, pageVars >>

\* faulty variant: only verified products are looked for
AlreadyScanned_FoundOnly(items, imei) ==
    \E i \in 1..Len(items) :
        items[i].imei = imei /\ items[i].status = "found"

\* scannedItems.find(item => item.imei === imei), as a truth value
AlreadyScanned(items, imei) == \E i \in 1..Len(items) : items[i].imei = imei

\* faulty variant: every entry marked found
NewItem_AlwaysFound(imei, existingProduct, items) ==
    [ imei      |-> imei,
      product   |-> existingProduct,
      timestamp |-> Len(items) + 1,
      status    |-> "found" ]

\* the ScannedItem built by handleScan; timestamp is the arrival ordinal of the
\* scan in the session (the order of the `new Date()` values)
NewItem(imei, existingProduct, items) ==
    [ imei      |-> imei,
      product   |-> existingProduct,
      timestamp |-> Len(items) + 1,
      status    |-> IF existingProduct # NoProduct THEN "found"
                    ELSE "not_found" ]

\* faulty variant: the entry added at the end, as StockControlPage does
AddScanned_Append(newItem, prev) == prev \o << newItem >>

\* setScannedItems(prev => [newItem, ...prev])
AddScanned(newItem, prev) == << newItem >> \o prev

\* the toast handleScan emits for a non-blank IMEI
\* faulty variant: the log is looked at before the record's status
ScanToast_DuplicateFirst(existingProduct, alreadyScanned) ==
    IF alreadyScanned
    THEN "ImeiYaEscaneado"
    ELSE IF existingProduct = NoProduct
         THEN "ImeiNoEncontrado"
         ELSE IF IsScannable(existingProduct.status)
              THEN "ProductoVerificado"
              ELSE "ProductoNoValido"

ScanToast(existingProduct, alreadyScanned) ==
    IF existingProduct # NoProduct /\ ~ IsScannable(existingProduct.status)
    THEN "ProductoNoValido"
    ELSE IF ~ alreadyScanned
         THEN (IF existingProduct # NoProduct THEN "ProductoVerificado"
               ELSE "ImeiNoEncontrado")
         ELSE "ImeiYaEscaneado"

\* faulty variant: the field is tested as typed, before trimming
IsBlank_Untrimmed(input) == input = << >>

\* the negation of `if (imeiInput.trim())`: the trimmed value is the empty
\* string
IsBlank(input) == Trim(input) = << >>

\* the form is rendered only while isScanning; input is the field's value
handleScan(input) ==
    /\ page = "StockControlFinal"
    /\ isScanning
    /\ LET imei == Trim(input)
           existingProduct == FindProduct(products, imei)
           alreadyScanned == AlreadyScanned(scannedItems, imei)
       IN  IF IsBlank(input)
           THEN /\ toast' = "none"
                /\ UNCHANGED scannedItems
           ELSE /\ toast' = ScanToast(existingProduct, alreadyScanned)
                /\ IF existingProduct # NoProduct
                        /\ ~ IsScannable(existingProduct.status)
                   THEN UNCHANGED scannedItems
                   ELSE IF ~ alreadyScanned
                        THEN scannedItems' =
                                AddScanned(NewItem(imei, existingProduct,
                                                   scannedItems),
                                           scannedItems)
                        ELSE UNCHANGED scannedItems
    /\ UNCHANGED << page, products, isScanning, sessionStartCounts,
                    missingProducts, pending, pageVars >>

\* faulty variant: the baseline is left as the session captured it
clearList_KeepsBaseline ==
    /\ page = "StockControlFinal"
    /\ ~ isScanning
    /\ Len(missingProducts) > 0
    /\ missingProducts' = << >>
    /\ scannedItems' = << >>
    /\ toast' = "ListaLimpiada"
    /\ UNCHANGED << page, products, isScanning, sessionStartCounts, pending,
                    pageVars >>

\* "Limpiar Lista", in the panel shown when !isScanning && missingProducts.length > 0
clearList ==
    /\ page = "StockControlFinal"
    /\ ~ isScanning
    /\ Len(missingProducts) > 0
    /\ missingProducts' = << >>
    /\ scannedItems' = << >>
    /\ sessionStartCounts' = ZeroCounts
    /\ toast' = "ListaLimpiada"
    /\ UNCHANGED << page, products, isScanning, pending, pageVars >>

\* "Marcar Extravio" on a row of the missing-products panel: the PATCH is sent
handleMarkAsLost(product) ==
    /\ page = "StockControlFinal"
    /\ ~ isScanning
    /\ Includes(missingProducts, product)
    /\ BagCardinality(pending) < MaxPending
    /\ pending' =
            pending (+) SetToBag({ [ op |-> "lost", id |-> product.id ] })
    /\ toast' = "none"
    /\ UNCHANGED << page, products, isScanning, scannedItems,
                    sessionStartCounts, missingProducts, pageVars >>

\* "Marcar Encontrado" on a row of the Extravios section, shown when
\* stats.extravios > 0: the PATCH is sent
handleMarkAsFound(product) ==
    /\ page = "StockControlFinal"
    /\ Includes(products, product)
    /\ product.status = "extravio"
    /\ BagCardinality(pending) < MaxPending
    /\ pending' =
            pending (+) SetToBag({ [ op |-> "found", id |-> product.id ] })
    /\ toast' = "none"
    /\ UNCHANGED << page, products, isScanning, scannedItems,
                    sessionStartCounts, missingProducts, pageVars >>

\* faulty variant: the first row of the list is dropped, whichever record was
\* asked for
RemoveMissing_Head(prev, id) == IF prev = << >> THEN << >> ELSE Tail(prev)

\* setMissingProducts(prev => prev.filter(p => p.id !== product.id))
RemoveMissing(prev, id) ==
    LET Keep(p) == p.id # id IN SelectSeq(prev, Keep)

\* how a PATCH ends: response.ok, a response that is not ok, or a rejection
\* (fetch rejects, or response.json() rejects on the body of a response that
\* is not ok), which the catch of the handler takes
Responses == { "ok", "not_ok", "thrown" }

\* the status the PATCH body asks for: 'extravio' in handleMarkAsLost,
\* 'disponible' in handleMarkAsFound
RequestedStatus(req) == IF req.op = "lost" THEN "extravio" ELSE "disponible"

\* the inventory writer behind PATCH /api/products/:id, answering with
\* success: the record with this id takes the new status, the other records
\* stay as they are
updateStatus(arr, id, newStatus) ==
    [ i \in 1..Len(arr) |->
        IF arr[i].id = id THEN Product(id, newStatus) ELSE arr[i] ]

\* what the query holds after `await refetch()` that follows a successful
\* PATCH: the inventory as written, or the data it held when the GET fails
\* (refetch resolves without throwing and the query keeps its data)
Refreshed(arr, req) ==
    { updateStatus(arr, req.id, RequestedStatus(req)), arr }

\* faulty variant: a successful answer computes the missing list again, from
\* the refreshed snapshot and the log
markAsLostResponse_Recomputes(req, res) ==
    /\ BagIn(req, pending)
    /\ req.op = "lost"
    /\ res \in Responses
    /\ pending' = pending (-) SetToBag({ req })
    /\ IF res = "ok"
       THEN /\ products' \in Refreshed(products, req)
            /\ missingProducts' = NotScannedProducts(products', scannedItems)
            /\ toast' = "EstadoActualizado"
       ELSE /\ UNCHANGED << missingProducts, products >>
            /\ toast' = "Error"
    /\ UNCHANGED << page, isScanning, scannedItems,
                    sessionStartCounts, pageVars >>

\* faulty variant: a successful answer captures the baseline again
markAsLostResponse_Rebaseline(req, res) ==
    /\ BagIn(req, pending)
    /\ req.op = "lost"
    /\ res \in Responses
    /\ pending' = pending (-) SetToBag({ req })
    /\ IF res = "ok"
       THEN /\ missingProducts' = RemoveMissing(missingProducts, req.id)
            /\ sessionStartCounts' = StartCounts(products)
            /\ products' \in Refreshed(products, req)
            /\ toast' = "EstadoActualizado"
       ELSE /\ UNCHANGED << missingProducts, sessionStartCounts, products >>
            /\ toast' = "Error"
    /\ UNCHANGED << page, isScanning, scannedItems, pageVars >>

\* faulty variant: the record is removed as soon as the PATCH has answered,
\* before response.ok is looked at
markAsLostResponse_RemoveFirst(req, res) ==
    /\ BagIn(req, pending)
    /\ req.op = "lost"
    /\ res \in Responses
    /\ pending' = pending (-) SetToBag({ req })
    /\ missingProducts' = RemoveMissing(missingProducts, req.id)
    /\ IF res = "ok"
       THEN /\ products' \in Refreshed(products, req)
            /\ toast' = "EstadoActualizado"
       ELSE /\ UNCHANGED products
            /\ toast' = "Error"
    /\ UNCHANGED << page, isScanning, scannedItems,
                    sessionStartCounts, pageVars >>

\* the PATCH of handleMarkAsLost ends with res.  Both failures end in the
\* same "Error" notification (the else branch and the catch).  On success
\* the handler awaits the refetch before it raises the notification.
markAsLostResponse(req, res) ==
    /\ BagIn(req, pending)
    /\ req.op = "lost"
    /\ res \in Responses
    /\ pending' = pending (-) SetToBag({ req })
    /\ IF res = "ok"
       THEN /\ missingProducts' = RemoveMissing(missingProducts, req.id)
            /\ products' \in Refreshed(products, req)
            /\ toast' = "EstadoActualizado"
       ELSE /\ UNCHANGED << missingProducts, products >>
            /\ toast' = "Error"
    /\ UNCHANGED << page, isScanning, scannedItems,
                    sessionStartCounts, pageVars >>

\* faulty variant: a successful answer drops the log entries of the record
\* that was written
markAsFoundResponse_PrunesLog(req, res) ==
    /\ BagIn(req, pending)
    /\ req.op = "found"
    /\ res \in Responses
    /\ pending' = pending (-) SetToBag({ req })
    /\ IF res = "ok"
       THEN /\ products' \in Refreshed(products, req)
            /\ scannedItems' =
                    LET Keep(item) == item.product.id # req.id
                    IN  SelectSeq(scannedItems, Keep)
            /\ toast' = "ProductoEncontrado"
       ELSE /\ UNCHANGED << products, scannedItems >>
            /\ toast' = "Error"
    /\ UNCHANGED << page, isScanning, sessionStartCounts, missingProducts,
                    pageVars >>

\* faulty variant: a successful answer empties the missing list
markAsFoundResponse_ClearsMissing(req, res) ==
    /\ BagIn(req, pending)
    /\ req.op = "found"
    /\ res \in Responses
    /\ pending' = pending (-) SetToBag({ req })
    /\ IF res = "ok"
       THEN /\ missingProducts' = << >>
            /\ products' \in Refreshed(products, req)
            /\ toast' = "ProductoEncontrado"
       ELSE /\ UNCHANGED << missingProducts, products >>
            /\ toast' = "Error"
    /\ UNCHANGED << page, isScanning, scannedItems,
                    sessionStartCounts, pageVars >>

\* the PATCH of handleMarkAsFound ends with res; on success the handler
\* awaits the refetch before it raises the notification
markAsFoundResponse(req, res) ==
    /\ BagIn(req, pending)
    /\ req.op = "found"
    /\ res \in Responses
    /\ pending' = pending (-) SetToBag({ req })
    /\ IF res = "ok"
       THEN /\ products' \in Refreshed(products, req)
            /\ toast' = "ProductoEncontrado"
       ELSE /\ UNCHANGED products
            /\ toast' = "Error"
    /\ UNCHANGED << page, isScanning, scannedItems,
                    sessionStartCounts, missingProducts, pageVars >>

-----------------------------------------------------------------------------
(* StockControlPage *)

\* const stats = {...}: the figures of the cards, from allProducts.  The
\* products query of this page is the one `products` holds; data that is not
\* an array takes the same branch as the empty array.  extraviosCount comes
\* from a query of its own and is left out.
pageStats ==
    IF Len(products) > 0
    THEN [ totalProducts |-> Len(products),
           disponibleCount |-> CountStatus(products, "disponible"),
           reservadoCount |-> CountStatus(products, "reservado"),
           vendidoCount |-> CountStatus(products, "vendido") ]
    ELSE [ totalProducts |-> 14,
           disponibleCount |-> 4,
           reservadoCount |-> 2,
           vendidoCount |-> 8 ]

startScanning ==
    /\ page = "StockControlPage"
    /\ ~ pageScanning
    /\ pageScanning' = TRUE
    /\ pageScannedItems' = << >>
    /\ toast' = "none"
    /\ UNCHANGED << page, products, finalVars >>

stopScanning ==
    /\ page = "StockControlPage"
    /\ pageScanning
    /\ pageScanning' = FALSE
    /\ toast' = "SesionFinalizada"
    /\ UNCHANGED << page, products, finalVars, pageScannedItems >>

\* setScannedItems(prev => [...prev, imei])
PageAddScanned(imei, prev) == Append(prev, imei)

\* Enter pressed in the IMEI field, rendered only while isScanning
handleImeiScan(input) ==
    /\ page = "StockControlPage"
    /\ pageScanning
    /\ LET imei == Trim(input)
       IN  IF imei = << >>
           THEN /\ toast' = "none"
                /\ UNCHANGED pageScannedItems
           ELSE IF ~ Includes(pageScannedItems, imei)
                THEN /\ pageScannedItems' =
                            PageAddScanned(imei, pageScannedItems)
                     /\ toast' = "ImeiEscaneado"
                ELSE /\ UNCHANGED pageScannedItems
                     /\ toast' = "ImeiDuplicado"
    /\ UNCHANGED << page, products, finalVars, pageScanning >>

-----------------------------------------------------------------------------
(* Specification *)

\* the reconciliation session of StockControlFinal, the products query and
\* StockControlPage
SessionNext ==
    \/ \E id \in ProductIds, st \in Status \cup {Absent} :
            Refetch([ kind |-> "array",
                      value |-> WithRecord(products, id, st) ])
    \/ \E p \in ObjectBodies :
            Refetch([ kind |-> "object", value |-> p ])
    \/ startScanningSession
    \/ finalizeScanningSession
    \/ \E input \in Inputs : handleScan(input)
    \/ clearList
    \/ startScanning
    \/ stopScanning
    \/ \E input \in Inputs : handleImeiScan(input)

\* the remediation requests of StockControlFinal
RemediationNext ==
    \/ \E i \in 1..Len(missingProducts) : handleMarkAsLost(missingProducts[i])
    \/ \E i \in 1..Len(products) : handleMarkAsFound(products[i])
    \/ \E req \in BagToSet(pending), res \in Responses :
            markAsLostResponse(req, res)
    \/ \E req \in BagToSet(pending), res \in Responses :
            markAsFoundResponse(req, res)

Next == SessionNext \/ RemediationNext

\* the whole program
Spec == Init /\ [][Next]_vars

\* the program while no remediation request is issued
SessionSpec == Init /\ [][SessionNext]_vars

\* the records of the inventories on which remediation alone is followed: one
\* more than NProducts, so that the missing list holds several rows
RemediationIds == 1..(NProducts + 1)

\* the arrays the query can have delivered over RemediationIds, in id order
LoadedInventories ==
    LET Full(f) == [ id \in RemediationIds |->
                        IF f[id] = Absent THEN NoProduct
                        ELSE Product(id, f[id]) ]
        Present(p) == p # NoProduct
    IN  { SelectSeq(Full(f), Present) :
            f \in [RemediationIds -> Status \cup {Absent}] }

\* the state after the query has delivered an inventory and a session was
\* started on it and finalized with nothing scanned: every scannable record
\* is listed as missing
FinalizedInit ==
    /\ page = "StockControlFinal"
    /\ products \in LoadedInventories
    /\ isScanning = FALSE
    /\ scannedItems = << >>
    /\ sessionStartCounts = StartCounts(products)
    /\ missingProducts = NotScannedProducts(products, << >>)
    /\ pending = EmptyBag
    /\ toast = FinalizeOutcome(0, StartCounts(products).total,
                               NotScannedProducts(products, << >>))
    /\ pageScanning = FALSE
    /\ pageScannedItems = << >>

\* the remediation requests issued and answered on a finalized session, while
\* no session is started and the query delivers nothing new
RemediationSpec == FinalizedInit /\ [][RemediationNext]_vars

-----------------------------------------------------------------------------
(* Vocabulary of the properties *)

Range(seq) == { seq[i] : i \in 1..Len(seq) }

\* the statuses subject to physical verification
ScannableStatuses == { "disponible", "reservado", "tecnico_interno" }

\* the statuses excluded from reconciliation
NonScannableStatuses == { "vendido", "tecnico_externo", "a_reparar", "extravio" }

\* the IMEIs held by the scanLog
LoggedImeis(items) == { items[i].imei : i \in 1..Len(items) }

\* the snapshot records that are scannable
ScannableRecords == { p \in Range(products) : p.status \in ScannableStatuses }

\* a record of the snapshot with this IMEI and a status among ss
Matches(imei, ss) ==
    \E p \in Range(products) : p.imei = imei /\ p.status \in ss

\* the three notifications of finalize: complete, discrepancy, incomplete
FinalizeToasts == { "ControlCompletadoPerfecto", "ProductosFaltantesDetectados",
                    "ControlIncompleto" }

\* the step is the finalize of an Active session
FinalizeStep == isScanning /\ ~ isScanning'

\* the step leaves the session Active and the snapshot as it is, as a scan does
ActiveStep == isScanning /\ isScanning' /\ products' = products

-----------------------------------------------------------------------------
(* C1: in an Active session a scan of an IMEI (typed with or without blanks
   around it) that matches a scannable record is accepted and adds one entry
   when the IMEI is not in the scanLog, and is rejected as a duplicate and
   leaves the scanLog as it is when the IMEI is already there; no entry
   leaves the scanLog while the session stays Active.  So two scans of one
   valid IMEI grow the log by exactly 1, whatever is scanned in between. *)
C1_DuplicateScanAddsNothing ==
    [][ /\ ActiveStep =>
            \A id \in ScannedIds :
                LET imei == ImeiOf(id)
                IN  Matches(imei, ScannableStatuses) =>
                      \A lr \in Pads :
                        handleScan(Typed(imei, lr)) =>
                            IF imei \in LoggedImeis(scannedItems)
                            THEN /\ scannedItems' = scannedItems
                                 /\ toast' = "ImeiYaEscaneado"
                            ELSE /\ Len(scannedItems') = Len(scannedItems) + 1
                                 /\ imei \in LoggedImeis(scannedItems')
                                 /\ toast' = "ProductoVerificado"
        /\ (isScanning /\ isScanning') =>
                LoggedImeis(scannedItems) \subseteq LoggedImeis(scannedItems')
      ]_vars

\* a valid IMEI was accepted and its second scan has just been rejected
C1_Witness ==
    /\ isScanning
    /\ toast = "ImeiYaEscaneado"
    /\ Len(scannedItems) = 1
    /\ scannedItems[1].status = "found"
    /\ Matches(scannedItems[1].imei, ScannableStatuses)

(* C2: in an Active session a scan of an IMEI whose record has a
   non-scannable status (vendido, tecnico_externo, a_reparar, extravio) is
   rejected as not valid and leaves the scanLog unchanged, whatever the log
   holds. *)
C2_NonScannableRejected ==
    [][ ActiveStep =>
          \A id \in ScannedIds :
            LET imei == ImeiOf(id)
            IN  Matches(imei, NonScannableStatuses) =>
                  \A lr \in Pads :
                    handleScan(Typed(imei, lr)) =>
                        /\ scannedItems' = scannedItems
                        /\ toast' = "ProductoNoValido"
      ]_vars

\* a non-scannable record has just been scanned, after an earlier scan
C2_Witness ==
    /\ isScanning
    /\ toast = "ProductoNoValido"
    /\ Len(scannedItems) >= 1
    /\ \E p \in Range(products) : p.status \in NonScannableStatuses

(* C3: right after finalize, missingProducts holds exactly the snapshot
   records whose status is scannable and whose IMEI is not in the scanLog,
   each once. *)
C3_MissingIsScannableUnscanned ==
    toast \in FinalizeToasts =>
        /\ Range(missingProducts) =
                { p \in ScannableRecords :
                    p.imei \notin LoggedImeis(scannedItems) }
        /\ Cardinality(Range(missingProducts)) = Len(missingProducts)

\* a finalize after at least one scan that left a record missing
C3_Witness ==
    /\ toast \in FinalizeToasts
    /\ Len(scannedItems) >= 1
    /\ Len(missingProducts) >= 1

(* C4: finalize reports exactly one of the three outcomes; it reports the
   discrepancy whenever missingProducts is not empty, also when the scanLog
   length equals expectedTotal; it reports complete only when the scanLog
   length equals expectedTotal and missingProducts is empty. *)
C4_IdentityBeforeCount ==
    [][ FinalizeStep =>
            /\ toast' \in FinalizeToasts
            /\ Len(missingProducts') > 0 =>
                    toast' = "ProductosFaltantesDetectados"
            /\ toast' = "ControlCompletadoPerfecto" =>
                    /\ Len(scannedItems) = sessionStartCounts.total
                    /\ Len(missingProducts') = 0
      ]_vars

\* the counts match (an unknown IMEI stands in for a record) and the
\* discrepancy is reported
C4_Witness ==
    /\ toast = "ProductosFaltantesDetectados"
    /\ sessionStartCounts.total >= 1
    /\ Len(scannedItems) = sessionStartCounts.total
    /\ Len(missingProducts) >= 1

(* C5: a finalize that follows start at once (no scan, no refresh between)
   leaves missingProducts equal to the set of all scannable records of the
   snapshot, and reports the discrepancy if that set is not empty and
   complete if it is empty. *)
C5_StartThenFinalize ==
    [][ (toast = "ControlIniciado" /\ FinalizeStep) =>
            /\ Range(missingProducts') = ScannableRecords
            /\ Len(missingProducts') = Cardinality(ScannableRecords)
            /\ toast' = IF ScannableRecords # {}
                        THEN "ProductosFaltantesDetectados"
                        ELSE "ControlCompletadoPerfecto"
      ]_vars

\* a session finalized with zero scans over a snapshot with scannable records
C5_Witness ==
    /\ toast = "ProductosFaltantesDetectados"
    /\ ~ isScanning
    /\ scannedItems = << >>
    /\ Len(missingProducts) >= 1
    /\ Range(missingProducts) = ScannableRecords

(* C6: when the snapshot still has the scannable records counted at start and
   the scanLog holds exactly their IMEIs, each once, finalize leaves
   missingProducts empty and reports complete. *)
C6_AllScannedIsComplete ==
    [][ ( /\ FinalizeStep
          /\ sessionStartCounts.total = Cardinality(ScannableRecords)
          /\ LoggedImeis(scannedItems) = { p.imei : p \in ScannableRecords }
          /\ Len(scannedItems) = Cardinality(ScannableRecords) ) =>
            /\ missingProducts' = << >>
            /\ toast' = "ControlCompletadoPerfecto"
      ]_vars

\* every scannable record was scanned and the session finalized as complete
C6_Witness ==
    /\ toast = "ControlCompletadoPerfecto"
    /\ ~ isScanning
    /\ Len(scannedItems) >= 1
    /\ LoggedImeis(scannedItems) = { p.imei : p \in ScannableRecords }

(* C7, as claimed: incomplete is reported only when the scanLog length is
   strictly less than expectedTotal and missingProducts is empty. *)
C7_IncompleteOnlyBelowExpected ==
    toast = "ControlIncompleto" =>
        /\ Len(scannedItems) < sessionStartCounts.total
        /\ Len(missingProducts) = 0

(* C7, amended: finalize reports incomplete exactly when missingProducts is
   empty and the scanLog length differs from expectedTotal; the length may be
   greater than expectedTotal as well as smaller. *)
C7_IncompleteIffCountsDiffer ==
    toast \in FinalizeToasts =>
        ( toast = "ControlIncompleto" <=>
            /\ Len(missingProducts) = 0
            /\ Len(scannedItems) # sessionStartCounts.total )

\* incomplete reported with more scans than expected
C7_Witness ==
    /\ toast = "ControlIncompleto"
    /\ Len(scannedItems) > sessionStartCounts.total
    /\ sessionStartCounts.total >= 1

(* C8, as claimed: every scan of a non-blank IMEI that matches no record of
   the snapshot adds one not_found entry and is reported as unknown IMEI. *)
C8_UnknownAlwaysAppended ==
    [][ ActiveStep =>
          \A id \in ScannedIds :
            LET imei == ImeiOf(id)
            IN  ~ Matches(imei, Status) =>
                  \A lr \in Pads :
                    handleScan(Typed(imei, lr)) =>
                        /\ Len(scannedItems') = Len(scannedItems) + 1
                        /\ toast' = "ImeiNoEncontrado"
      ]_vars

(* C8, amended: a scan of a non-blank IMEI that matches no record of the
   snapshot and is not yet in the scanLog adds one entry with outcome
   not_found, bound to no record, and is reported as unknown IMEI; when the
   IMEI is already in the scanLog the scan adds nothing and is reported as a
   duplicate. *)
C8_UnknownAppendedOnce ==
    [][ ActiveStep =>
          \A id \in ScannedIds :
            LET imei == ImeiOf(id)
            IN  ~ Matches(imei, Status) =>
                  \A lr \in Pads :
                    handleScan(Typed(imei, lr)) =>
                        IF imei \in LoggedImeis(scannedItems)
                        THEN /\ scannedItems' = scannedItems
                             /\ toast' = "ImeiYaEscaneado"
                        ELSE /\ Len(scannedItems') = Len(scannedItems) + 1
                             /\ \E i \in 1..Len(scannedItems') :
                                    /\ scannedItems'[i].imei = imei
                                    /\ scannedItems'[i].status = "not_found"
                                    /\ scannedItems'[i].product = NoProduct
                             /\ Range(scannedItems) \subseteq Range(scannedItems')
                             /\ toast' = "ImeiNoEncontrado"
      ]_vars

\* an unknown IMEI has just been logged as not_found
C8_Witness ==
    /\ isScanning
    /\ toast = "ImeiNoEncontrado"
    /\ Len(scannedItems) >= 1
    /\ scannedItems[1].status = "not_found"
    /\ scannedItems[1].product = NoProduct
    /\ ~ Matches(scannedItems[1].imei, Status)

(* C9, as claimed: the entry at position i of the scanLog is the i-th
   accepted scan. *)
C9_PositionIsArrival ==
    \A i \in 1..Len(scannedItems) : scannedItems[i].timestamp = i

(* C9, amended: the scanLog holds the accepted scans newest first: a scan
   that is accepted puts its entry, the (n+1)-th of the session, in front of
   the n entries already there, which keep their order and contents; so the
   entry at position i of a log of n entries is the (n-i+1)-th accepted
   scan. *)
C9_NewestFirst ==
    [][ (isScanning /\ isScanning' /\ scannedItems' # scannedItems) =>
            /\ scannedItems' # << >>
            /\ Tail(scannedItems') = scannedItems
            /\ Head(scannedItems').timestamp = Len(scannedItems) + 1
            /\ \A i \in 1..Len(scannedItems') :
                    scannedItems'[i].timestamp = Len(scannedItems') - i + 1
      ]_vars

\* two scans were accepted in the session
C9_Witness ==
    /\ isScanning
    /\ Len(scannedItems) >= 2
    /\ scannedItems[1].timestamp = 2
    /\ scannedItems[2].timestamp = 1

(* C10: no two entries of the scanned list carry the same IMEI, in the
   scanLog of StockControlFinal (found and not_found entries alike) and in
   the scannedItems of StockControlPage. *)
C10_NoDuplicateImei ==
    /\ \A i, j \in 1..Len(scannedItems) :
            i # j => scannedItems[i].imei # scannedItems[j].imei
    /\ \A i, j \in 1..Len(pageScannedItems) :
            i # j => pageScannedItems[i] # pageScannedItems[j]

\* a found and a not_found entry are logged and a repeated scan was rejected
C10_Witness ==
    /\ toast = "ImeiYaEscaneado"
    /\ Len(scannedItems) >= 2
    /\ \E i \in 1..Len(scannedItems) : scannedItems[i].status = "found"
    /\ \E i \in 1..Len(scannedItems) : scannedItems[i].status = "not_found"

\* the number of snapshot records with this status
SnapshotCount(st) ==
    Cardinality({ i \in 1..Len(products) : products[i].status = st })

(* C11: in the state right after a start, whatever the session before it
   left behind, the baseline holds the snapshot's counts of disponible,
   reservado and tecnico_interno records, expectedTotal is the sum of the
   three, the scanLog and the missingRecords are empty and the session is
   Active. *)
C11_StartCapturesBaseline ==
    toast = "ControlIniciado" =>
        /\ isScanning
        /\ scannedItems = << >>
        /\ missingProducts = << >>
        /\ \A st \in ScannableStatuses :
                sessionStartCounts[st] = SnapshotCount(st)
        /\ sessionStartCounts.total =
                SnapshotCount("disponible") + SnapshotCount("reservado")
                    + SnapshotCount("tecnico_interno")

\* a session was started on a snapshot that holds a scannable record
C11_Witness ==
    /\ toast = "ControlIniciado"
    /\ sessionStartCounts.total >= 1

(* C12: while the session is Active the baseline never changes: a step that
   starts and ends in an Active session (a scan, accepted or rejected, a
   refresh of the snapshot, the answer to a remediation request issued
   before the session started) leaves sessionStartCounts as it was. *)
C12_BaselineFixedWhileActive ==
    [][ (isScanning /\ isScanning')
            => sessionStartCounts' = sessionStartCounts ]_vars

\* in an Active session with a scan logged and a snapshot refreshed since
\* the start, a markLost request issued before the start was answered
C12_Witness ==
    /\ isScanning
    /\ toast = "EstadoActualizado"
    /\ scannedItems # << >>
    /\ sessionStartCounts.total >= 1
    /\ sessionStartCounts # StartCounts(products)

\* the number of scanLog entries whose bound record had this status
BoundCount(st) ==
    Cardinality({ i \in 1..Len(scannedItems) :
                    /\ scannedItems[i].product # NoProduct
                    /\ scannedItems[i].product.status = st })

(* C13: while the session is Active, the live counter shown for each
   scannable status is the baseline count of that status minus the number
   of scanLog entries whose bound record had that status, also after the
   snapshot was refreshed during the session. *)
C13_LiveCounterFromBaseline ==
    isScanning =>
        \A st \in ScannableStatuses :
            CardCounter(st) = sessionStartCounts[st] - BoundCount(st)

(* C14: while the session is Active, pendingToScan is expectedTotal minus
   the length of the scanLog, never clamped: also when expectedTotal is 0
   and when not_found entries make the scanLog longer than expectedTotal. *)
C14_PendingIsExpectedMinusLogged ==
    isScanning =>
        dynamicStats.pendingToScan =
            sessionStartCounts.total - Len(scannedItems)

\* the number of found entries of the scanLog
FoundCount ==
    Cardinality({ i \in 1..Len(scannedItems) :
                    scannedItems[i].status = "found" })

\* the snapshot held still yields the baseline counts and still holds every
\* record bound to a found entry, as it does when no refresh changed it since
\* the session started
SnapshotOfSession ==
    /\ \A st \in ScannableStatuses :
            sessionStartCounts[st] = SnapshotCount(st)
    /\ \A i \in 1..Len(scannedItems) :
            scannedItems[i].status = "found"
                => scannedItems[i].product \in Range(products)

(* C15, as claimed: in every reachable state of an Active or Finalized
   session the number of found entries is at most expectedTotal.  (In the
   other states, Idle, the scanLog is empty and the formula holds.) *)
C15_FoundAtMostExpected == FoundCount <= sessionStartCounts.total

(* C15, amended: in every reachable state of an Active or Finalized session
   whose snapshot is still the one of the session (it yields the baseline
   counts and holds every record bound to a found entry), the number of
   found entries is at most expectedTotal. *)
C15_FoundAtMostExpectedOfSnapshot ==
    SnapshotOfSession => FoundCount <= sessionStartCounts.total

\* every expected record was scanned and found, on the session's snapshot
C15_Witness ==
    /\ isScanning
    /\ SnapshotOfSession
    /\ sessionStartCounts.total >= 1
    /\ FoundCount = sessionStartCounts.total

(* C16: when the PATCH of markLost fails, by a response that is not ok or
   by a rejection, the step leaves missingProducts exactly as it was (the
   record stays in it), leaves the scanLog, the baseline and the lifecycle
   state unchanged, and emits the failure notification: the failure ends in
   the handler. *)
C16_FailedMarkLostChangesNothing ==
    [][ \A req \in BagToSet(pending), res \in { "not_ok", "thrown" } :
            markAsLostResponse(req, res) =>
                /\ missingProducts' = missingProducts
                /\ scannedItems' = scannedItems
                /\ sessionStartCounts' = sessionStartCounts
                /\ isScanning' = isScanning
                /\ toast' = "Error" ]_vars

\* a remediation request has failed in a Finalized session that has a
\* scanLog and a record still listed as missing
C16_Witness ==
    /\ ~ isScanning
    /\ toast = "Error"
    /\ missingProducts # << >>
    /\ scannedItems # << >>
    /\ \A p \in Range(products) : p.status # "extravio"

\* the records of the missing list other than the one with this id
OtherMissing(id) == { p \in Range(missingProducts) : p.id # id }

(* C17: a successful markLost removes from missingProducts the record it
   was called on and no other; the answer to a second markLost on the same
   record, also one issued before the first was answered, finds the record
   removed and leaves missingProducts as the first call left it; and every
   answer ends in a notification of the handler, never in an unhandled
   error. *)
C17_MarkLostRemovesOnce ==
    [][ \A req \in BagToSet(pending), res \in Responses :
            markAsLostResponse(req, res) =>
                /\ res = "ok" =>
                        /\ Range(missingProducts') = OtherMissing(req.id)
                        /\ Len(missingProducts') =
                                Cardinality(OtherMissing(req.id))
                /\ OtherMissing(req.id) = Range(missingProducts)
                        => missingProducts' = missingProducts
                /\ toast' \in { "EstadoActualizado", "Error" } ]_vars

\* markLost was called twice on a record before the first call was answered:
\* the first call has removed the record, another record is still listed and
\* the second call is yet to be answered
C17_Witness ==
    /\ toast = "EstadoActualizado"
    /\ missingProducts # << >>
    /\ \E req \in BagToSet(pending) :
            /\ req.op = "lost"
            /\ OtherMissing(req.id) = Range(missingProducts)

(* C18: the status-update PATCH is never invoked while the session is
   Active: no step taken in a state with isScanning true sends a request,
   neither markLost nor markFound nor a scan. *)
C18_NoWriteWhileActive ==
    [][ isScanning =>
            BagCardinality(pending') <= BagCardinality(pending) ]_vars

\* what the query resolves to when the inventory is empty or the body is not
\* an array
EmptyDeliveries ==
    { data \in Deliveries : data.kind = "array" => data.value = << >> }

(* C19: when the inventory fetch has failed or has not answered, or has
   returned an empty or a non-array result, the array the session works on
   is empty (a step that changes the array held by the delivery of such a
   result leaves it empty), the start can be taken, and the start leaves
   the session Active with a baseline of 0 for every scannable status and
   expectedTotal 0. *)
C19_StartOnEmptySnapshot ==
    [][ /\ products' # products =>
                \A data \in EmptyDeliveries :
                    Refetch(data) => products' = << >>
        /\ (page = "StockControlFinal" /\ ~ isScanning /\ products = << >>)
                => ENABLED startScanningSession
        /\ (toast' = "ControlIniciado" /\ products' = << >>)
                => /\ isScanning'
                   /\ \A st \in ScannableStatuses :
                            sessionStartCounts'[st] = 0
                   /\ sessionStartCounts'.total = 0 ]_vars

\* in a session started on an empty snapshot, with the baseline at zero, a
\* scan was taken
C19_Witness ==
    /\ isScanning
    /\ products = << >>
    /\ sessionStartCounts = ZeroCounts
    /\ scannedItems # << >>
    /\ toast = "ImeiNoEncontrado"

\* the inputs that are empty or hold only blanks
BlankInputs == { Blanks(n) : n \in 0..MaxPad }

(* C20: in an Active session, submitting an input that is empty or holds
   only blanks changes nothing: the scanLog, the baseline, missingProducts
   and the lifecycle state stay as they are and no notification is emitted.
   An input that holds an IMEI is looked up and stored by the IMEI without
   the blanks around it: the entry added carries the IMEI without the blanks
   and is found exactly when a record of the snapshot has that IMEI, to
   which it is then bound. *)
C20_BlankScanIsNoOp ==
    [][ (isScanning /\ products' = products) =>
            /\ \A input \in BlankInputs :
                    handleScan(input) =>
                        /\ isScanning' = isScanning
                        /\ scannedItems' = scannedItems
                        /\ sessionStartCounts' = sessionStartCounts
                        /\ missingProducts' = missingProducts
                        /\ toast' = "none"
            /\ scannedItems' # scannedItems =>
                    \A id \in ScannedIds :
                        LET imei == ImeiOf(id)
                        IN  \/ /\ Tail(scannedItems') = scannedItems
                               /\ scannedItems'[1].imei = imei
                               /\ IF Matches(imei, Status)
                                  THEN /\ scannedItems'[1].status = "found"
                                       /\ scannedItems'[1].product
                                                \in Range(products)
                                       /\ scannedItems'[1].product.imei
                                                = imei
                                  ELSE scannedItems'[1].status = "not_found"
                            \/ \A lr \in Pads :
                                    ~ handleScan(Typed(imei, lr))
      ]_vars

\* an Active session with a found entry logged and a record expected, after
\* a step that emitted no notification, as the submission of a blank input
\* is
C20_Witness ==
    /\ isScanning
    /\ toast = "none"
    /\ sessionStartCounts.total >= 1
    /\ FoundCount >= 1
    /\ SnapshotOfSession

\* some input is submitted to the scanner form
ScanAny == \E input \in Inputs : handleScan(input)

\* "Marcar Extravio" is pressed on some row of the missing-products panel
MarkLostAny ==
    \E i \in 1..Len(missingProducts) : handleMarkAsLost(missingProducts[i])

(* C21: the session follows Idle -> Active -> Finalized -> Idle.  While it
   is Active neither start nor reset nor markLost can be taken; while it is
   not Active neither a scan nor finalize can be taken; a step that enters
   Active is a start and a step that leaves Active is a finalize. *)
C21_Lifecycle ==
    [][ /\ isScanning =>
                /\ ~ ENABLED startScanningSession
                /\ ~ ENABLED clearList
                /\ ~ ENABLED MarkLostAny
        /\ ~ isScanning =>
                /\ ~ ENABLED ScanAny
                /\ ~ ENABLED finalizeScanningSession
        /\ (~ isScanning /\ isScanning') => startScanningSession
        /\ (isScanning /\ ~ isScanning') => finalizeScanningSession
      ]_vars

\* a session was started, finalized with records missing, and reset
C21_Witness ==
    /\ toast = "ListaLimpiada"
    /\ ~ isScanning
    /\ scannedItems = << >>

(* C22: finalize leaves the scan log as it is, and from then until the
   next start or reset no step changes it: not a refresh of the snapshot,
   not a markLost or markFound request, not the answer to one. *)
C22_LogFrozenAfterFinalize ==
    [][ /\ FinalizeStep => scannedItems' = scannedItems
        /\ (~ isScanning /\ scannedItems' # scannedItems) =>
                \/ startScanningSession
                \/ clearList
      ]_vars

\* a finalized session with a non-empty log in which a remediation request
\* has just been answered with success
C22_Witness ==
    /\ ~ isScanning
    /\ scannedItems # << >>
    /\ toast \in { "EstadoActualizado", "ProductoEncontrado" }

\* the step is the answer to the markFound request req
FoundAnswered(req) ==
    /\ req.op = "found"
    /\ pending' = pending (-) SetToBag({ req })

\* arr2 is arr with the status of record id set to st and nothing else
\* changed
OnlyStatusOf(arr, arr2, id, st) ==
    /\ Len(arr2) = Len(arr)
    /\ \A i \in 1..Len(arr) :
            IF arr[i].id = id
            THEN arr2[i] = [ arr[i] EXCEPT !.status = st ]
            ELSE arr2[i] = arr[i]

(* C23: the answer to a markFound request leaves missingProducts, the scan
   log, the baseline and the lifecycle as they are.  On success the success
   notification is raised and, in the snapshot the awaited refresh brings,
   the record is 'disponible' and every other record is as before; on
   failure the failure notification is raised and the snapshot, hence the
   record's status, is unchanged. *)
C23_MarkFoundDelegates ==
    [][ \A req \in BagToSet(pending) :
            FoundAnswered(req) =>
                /\ UNCHANGED << missingProducts, scannedItems,
                                sessionStartCounts, isScanning >>
                /\ toast' \in { "ProductoEncontrado", "Error" }
                /\ toast' = "ProductoEncontrado" =>
                        \/ products' = products
                        \/ OnlyStatusOf(products, products', req.id,
                                        "disponible")
                /\ toast' = "Error" => products' = products
      ]_vars

\* markFound has just succeeded on a record while other records were on the
\* missing list, and the refreshed snapshot shows a 'disponible' record
C23_Witness ==
    /\ toast = "ProductoEncontrado"
    /\ missingProducts # << >>
    /\ \E i \in 1..Len(products) :
            /\ products[i].status = "disponible"
            /\ ~ Includes(missingProducts, products[i])

\* the state the reset leaves: nothing missing, empty log, zero baseline,
\* session not Active
Cleared ==
    /\ missingProducts = << >>
    /\ scannedItems = << >>
    /\ sessionStartCounts = ZeroCounts
    /\ ~ isScanning

(* C24 as stated: in every Finalized state (here: the state a finalize has
   just produced) the reset is available, and the reset leaves the cleared
   state. *)
C24_ResetFromEveryFinalized ==
    [][ /\ (~ isScanning /\ toast \in FinalizeToasts) => ENABLED clearList
        /\ toast' = "ListaLimpiada" => Cleared'
      ]_vars

(* C24, amended: in every state of a session that is not Active and whose
   missing list is not empty (only a finalize fills that list) the reset is
   available, and the reset leaves the cleared state. *)
C24_ResetFromFinalizedWithMissing ==
    [][ /\ (page = "StockControlFinal" /\ ~ isScanning
                /\ missingProducts # << >>) => ENABLED clearList
        /\ toast' = "ListaLimpiada" => Cleared'
      ]_vars

\* the reset has just been taken, with scannable records in the snapshot
C24_Witness ==
    /\ toast = "ListaLimpiada"
    /\ Cleared
    /\ \E i \in 1..Len(products) : IsScannable(products[i].status)

\* the notification the claim gives a scan of imei: unknown when no record
\* matches, non-scannable when the matching record is not scannable,
\* duplicate when a scannable record matches and the IMEI is logged, accepted
\* otherwise
ClaimedKind(imei) ==
    IF ~ Matches(imei, Status) THEN "ImeiNoEncontrado"
    ELSE IF Matches(imei, NonScannableStatuses) THEN "ProductoNoValido"
    ELSE IF imei \in LoggedImeis(scannedItems) THEN "ImeiYaEscaneado"
    ELSE "ProductoVerificado"

\* the same, with a logged IMEI that matches no record taken as a duplicate
KindOfScan(imei) ==
    IF Matches(imei, NonScannableStatuses) THEN "ProductoNoValido"
    ELSE IF imei \in LoggedImeis(scannedItems) THEN "ImeiYaEscaneado"
    ELSE IF Matches(imei, Status) THEN "ProductoVerificado"
    ELSE "ImeiNoEncontrado"

(* C25 as stated: in an Active session a scan of a non-blank IMEI raises
   one notification, of the kind the claim names: unknown, non-scannable,
   duplicate or accepted. *)
C25_ScanKindAsClaimed ==
    [][ ActiveStep =>
          \A id \in ScannedIds :
            LET imei == ImeiOf(id)
            IN  \/ toast' = ClaimedKind(imei)
                \/ \A lr \in Pads : ~ handleScan(Typed(imei, lr))
      ]_vars

(* C25, amended: in an Active session a scan of a non-blank IMEI raises one
   notification: non-scannable when the matching record is not scannable;
   otherwise duplicate when the IMEI is already in the scanLog, whether it
   matches a scannable record or no record; otherwise accepted when it
   matches a (scannable) record and unknown when it matches none. *)
C25_ScanKind ==
    [][ ActiveStep =>
          \A id \in ScannedIds :
            LET imei == ImeiOf(id)
            IN  \/ toast' = KindOfScan(imei)
                \/ \A lr \in Pads : ~ handleScan(Typed(imei, lr))
      ]_vars

\* a scan has just been reported as a duplicate while the log holds
\* not_found entries only: the IMEI scanned again matched no record
C25_Witness ==
    /\ isScanning
    /\ toast = "ImeiYaEscaneado"
    /\ scannedItems # << >>
    /\ \A i \in 1..Len(scannedItems) : scannedItems[i].status = "not_found"
    /\ \A i \in 1..Len(scannedItems) :
            ~ Matches(scannedItems[i].imei, Status)

\* the number of records of the snapshot with status st, counted one by one
RealCount(st) == Cardinality({ i \in 1..Len(products) : products[i].status = st })

(* C26: on StockControlPage, once the query has delivered a list, the
   statistics shown are the counts of that list, the empty list included:
   totalProducts is its length and disponibleCount, reservadoCount and
   vendidoCount are the numbers of its records with that status. *)
C26_PageStatsAreRealCounts ==
    [][ (page = "StockControlPage" /\ products' # products) =>
            /\ pageStats'.totalProducts = Len(products')
            /\ pageStats'.disponibleCount = RealCount("disponible")'
            /\ pageStats'.reservadoCount = RealCount("reservado")'
            /\ pageStats'.vendidoCount = RealCount("vendido")'
      ]_vars

(* C27: in the state finalize leaves when it reports 'complete, no
   discrepancy', the scan log holds no not_found entry and every scannable
   record of the snapshot has its IMEI in the log, whether or not the
   snapshot was refreshed between start and finalize.  (The session keeps
   the counts of the baseline, not its records.) *)
C27_CompleteMeansAllVerified ==
    (page = "StockControlFinal" /\ toast = "ControlCompletadoPerfecto") =>
        /\ \A i \in 1..Len(scannedItems) :
                scannedItems[i].status # "not_found"
        /\ \A p \in ScannableRecords :
                p.imei \in LoggedImeis(scannedItems)

(* C28: while the session is Active the missing list is empty, in every
   reachable state: start empties it, only finalize fills it, and the answer
   to a markLost request sent before the start can only remove rows. *)
C28_NothingMissingWhileActive ==
    isScanning => missingProducts = << >>

\* a markLost request sent from the previous session's list has just been
\* answered with success while the new session is Active
C28_Witness ==
    /\ isScanning
    /\ toast = "EstadoActualizado"
    /\ missingProducts = << >>

\* the step is the answer to the markLost request req
LostAnswered(req) ==
    /\ req.op = "lost"
    /\ pending' = pending (-) SetToBag({ req })

(* C29: the answer to a markLost request, whenever it arrives (after a
   reset, or after the start, a scan or the finalize of a later session),
   adds no row to missingProducts, keeps every row whose id is not the
   requested one, in the same order, and leaves the scan log, the baseline
   and the lifecycle state as they are. *)
C29_LateMarkLostOnlyRemoves ==
    [][ \A req \in BagToSet(pending) :
            LostAnswered(req) =>
                /\ scannedItems' = scannedItems
                /\ sessionStartCounts' = sessionStartCounts
                /\ isScanning' = isScanning
                /\ \/ missingProducts' = missingProducts
                   \/ /\ Range(missingProducts') = OtherMissing(req.id)
                      /\ \A i, j \in 1..Len(missingProducts') :
                            i < j =>
                              \E a, b \in 1..Len(missingProducts) :
                                /\ a < b
                                /\ missingProducts[a] = missingProducts'[i]
                                /\ missingProducts[b] = missingProducts'[j]
      ]_vars

\* a markLost request sent from the list of an earlier session has just
\* been answered with success in a later session that is Active and has a
\* scan in its log
C29_Witness ==
    /\ isScanning
    /\ toast = "EstadoActualizado"
    /\ scannedItems # << >>

(* C30: in every reachable state, whatever was scanned and whatever the
   query delivered during the session, each live counter of dynamicStats
   (disponible, reservado, tecnico_interno) is an integer from 0 up to the
   number of records that have that status in the snapshot now. *)
C30_LiveCountersWithinSnapshot ==
    \A st \in ScannableStatuses :
        /\ dynamicStats[st] \in Int
        /\ 0 <= dynamicStats[st]
        /\ dynamicStats[st] <= RealCount(st)

\* an Active session after a scan and a refresh: the log holds an entry
\* bound to a record whose status the snapshot now gives differently, and a
\* live counter stands below the count of its status
C30_Witness ==
    /\ isScanning
    /\ \E st \in ScannableStatuses : dynamicStats[st] < RealCount(st)
    /\ \E i \in 1..Len(scannedItems) :
            /\ scannedItems[i].status = "found"
            /\ ~ Includes(products, scannedItems[i].product)

=============================================================================
